---- MODULE Spec2Model ----
(***************************************************************************)
(* Model of one route of crafty-reverse-proxy: the Connector loop          *)
(* (internal/modules/connector), the ServerOperator with its idle-shutdown *)
(* timer (internal/modules/mc_operator) and the per-client handler         *)
(* (internal/modules/proxy).                                               *)
(*                                                                         *)
(* All four channels of the Connector are unbuffered, so a send and its    *)
(* receive are one rendezvous step.  A context deadline (dialTimeout > 0)  *)
(* elapses only while time passes, that is while the peer of the blocked   *)
(* channel operation is not ready: a goroutine parked on a channel whose   *)
(* peer is ready is matched at once.  The loop's select takes any channel  *)
(* that has a sender waiting, and of the senders of one channel the one    *)
(* that has waited longest.                                                *)
(*                                                                         *)
(* Spec is the route as wired by app.Run.  OperatorSpec is the             *)
(* ServerOperator under any order of calls of its interface.  CopySpec is  *)
(* one proxied session, byte by byte.                                      *)
(***************************************************************************)
EXTENDS Integers, FiniteSets, Sequences

\* Number of client sockets the acceptor takes during a run.
NumHandlers == 2
\* Number of failed reachability probes one AwaitForServerStart can make
\* before its startup timeout is due.
MaxAttempts == 2
\* Number of bytes a peer writes on its socket during a session, at most.
MaxBytes == 2
\* Number of bytes one Read of io.Copy returns, at most.
MaxChunk == 2
\* Number of different byte values.
NumByteValues == 2
\* Number of addresses in the configuration: app.Run starts one route each.
NumRoutes == 2
\* Accept errors the listener is followed through.
MaxAcceptErrors == 2

Handlers == 1..NumHandlers
\* One backend connection per successful dial, at most one dial per handler.
Conns    == 1..NumHandlers
\* ScheduleShutdown runs once in StartLoop and at most once per release.
Timers   == 1..(NumHandlers + 1)
Bytes    == 1..NumByteValues
Routes   == 1..NumRoutes
\* The two io.Copy calls of handleClient: client to backend, backend to client.
Dirs     == {"c2s", "s2c"}

VARIABLES
    autoshutdown,   \* Connector.autoshutdown
    state,          \* Connector.state
    playerCount,    \* Connector.playerCount
    loopPc,         \* position of the StartLoop goroutine
    attempt,        \* AwaitForServerStart: attempt (0 outside the poll)
    reply,          \* the connPackage the loop is sending on connCh
    hpc,            \* position of each handleClient goroutine
    hconn,          \* handleClient: serverConnection (0 is nil)
    hres,           \* handleClient: outcome of GetConnection
    c2s, s2c,       \* the two io.Copy directions of a handler
    conn,           \* every backend net.Conn dialled by ConnectToServer
    timer,          \* every time.Timer made by ScheduleShutdown
    shutDownTimer,  \* ServerOperator.shutDownTimer (0 is nil)
    startCalls,     \* history: calls of Crafty.StartMcServer
    awaitCalls,     \* history: calls of AwaitForServerStart
    stopCalls,      \* history: calls of Crafty.StopMcServer, per timer
    stopFailed,     \* history: a Crafty.StopMcServer error has been logged
    failed,         \* history: a start, poll or dial failure has happened
    bootRunning,    \* history: what IsServerRunning answered in StartLoop
    arrival,        \* history: the pending channel sends, oldest first
    sent,           \* per direction: the bytes the source peer has written
    srcEnd,         \* per direction: what the source peer did to its socket
    taken,          \* per direction: how many bytes io.Copy has read
    buf,            \* per direction: the bytes io.Copy has read, not written
    delivered,      \* per direction: the bytes written to the other socket
    route,          \* per route of app.Run: its Connector, operator and loop
    alive,          \* the process has not exited
    acceptErrors    \* errors listener.Accept has returned so far

vars == << autoshutdown, state, playerCount, loopPc, attempt, reply, hpc, hconn,
           hres, c2s, s2c, conn, timer, shutDownTimer, startCalls, awaitCalls,
           stopCalls, stopFailed, failed, bootRunning, arrival, sent, srcEnd,
           taken, buf, delivered, route, alive, acceptErrors >>

ctrlVars    == << state, playerCount >>
handlerVars == << hpc, hconn, hres, c2s, s2c >>
timerVars   == << timer, shutDownTimer >>
histVars    == << startCalls, awaitCalls, failed, bootRunning >>
copyVars    == << sent, srcEnd, taken, buf, delivered >>
appVars     == << route, alive, acceptErrors >>

noReply == [conn |-> 0, err |-> "none"]

\* What app.Run builds for one address before ListenAndProxy is called: a
\* Connector in stateOff with no player, an operator with no timer, no loop.
newRoute == [st |-> "Off", pc |-> 0, tm |-> "none", lp |-> "new"]

\* A goroutine starts a send on one of the loop's channels ("get" on
\* getConnCh, "put" on putConnCh, "shutdown" on shutdownCh): e is pending.
Arrive(e) == Append(arrival, e)
\* The send of e is over: the loop received it, or its sender gave up.
Leave(e) == SelectSeq(arrival, LAMBDA x : x # e)
\* The sender a receive on channel ch is matched with: the runtime keeps the
\* senders blocked on one channel in a queue and takes the oldest.
Oldest(ch) == SelectSeq(arrival, LAMBDA x : x[1] = ch)[1]

\* connector.New and mc_operator.New: the state right after construction.
Init ==
    /\ autoshutdown \in BOOLEAN
    /\ state = "Off"
    /\ playerCount = 0
    /\ loopPc = "new"
    /\ attempt = 0
    /\ reply = noReply
    /\ hpc = [h \in Handlers |-> "idle"]
    /\ hconn = [h \in Handlers |-> 0]
    /\ hres = [h \in Handlers |-> "none"]
    /\ c2s = [h \in Handlers |-> "none"]
    /\ s2c = [h \in Handlers |-> "none"]
    /\ conn = [c \in Conns |-> "none"]
    /\ timer = [t \in Timers |-> "none"]
    /\ shutDownTimer = 0
    /\ startCalls = 0
    /\ awaitCalls = 0
    /\ stopCalls = [t \in Timers |-> 0]
    /\ stopFailed = FALSE
    /\ failed = FALSE
    /\ bootRunning = FALSE
    /\ arrival = << >>
    /\ sent = [d \in Dirs |-> << >>]
    /\ srcEnd = [d \in Dirs |-> "open"]
    /\ taken = [d \in Dirs |-> 0]
    /\ buf = [d \in Dirs |-> << >>]
    /\ delivered = [d \in Dirs |-> << >>]
    /\ route = [r \in Routes |-> newRoute]
    /\ alive = TRUE
    /\ acceptErrors = 0

----------------------------------------------------------------------------
(* ServerOperator: the idle-shutdown timer *)

NewTimer == CHOOSE t \in Timers : timer[t] = "none" /\ \A u \in Timers : u < t => timer[u] # "none"

\* ScheduleShutdown: time.AfterFunc makes a new armed timer and the field is
\* overwritten; a timer the field held before is not stopped.
ScheduleShutdown ==
    /\ timer' = [timer EXCEPT ![NewTimer] = "armed"]
    /\ shutDownTimer' = NewTimer

\* A StopShuttingDown that forgets the timer it holds and does not stop it.
afterStopForgets(tm, f) == [timer |-> tm, field |-> 0]

\* The timers tm and the field f of the operator after StopShuttingDown: a
\* timer held in the field is stopped, which only an armed timer notices,
\* and the field is set to nil; with a nil field nothing happens.
afterStop(tm, f) ==
    IF f # 0
    THEN [timer |-> [tm EXCEPT ![f] = IF @ = "armed" THEN "stopped" ELSE @],
          field |-> 0]
    ELSE [timer |-> tm, field |-> f]

\* A StopShuttingDown that drops the timer without stopping it.
StopShuttingDownNoStop ==
    /\ timer' = timer
    /\ shutDownTimer' = 0

\* StopShuttingDown: time.Timer.Stop keeps a timer that has not fired from
\* firing and does nothing to one whose callback has started.
StopShuttingDown ==
    /\ timer' = afterStop(timer, shutDownTimer).timer
    /\ shutDownTimer' = afterStop(timer, shutDownTimer).field

\* The runtime starts the callback of an armed timer in its own goroutine.
TimerFire(t) ==
    /\ timer[t] = "armed"
    /\ timer' = [timer EXCEPT ![t] = "fired"]
    /\ UNCHANGED << autoshutdown, appVars, copyVars, ctrlVars, loopPc, attempt, reply, handlerVars,
                    conn, shutDownTimer, histVars, stopCalls, stopFailed, arrival >>

\* A callback that posts its event without issuing the Stop command.
TimerCallbackNoStop(t) ==
    /\ timer[t] = "fired"
    /\ timer' = [timer EXCEPT ![t] = "posting"]
    /\ arrival' = Arrive(<< "shutdown", t >>)
    /\ UNCHANGED << autoshutdown, appVars, copyVars, ctrlVars, loopPc, attempt, reply, handlerVars,
                    conn, shutDownTimer, histVars, stopCalls, stopFailed >>

\* A callback that sets the Connector's state itself.
TimerCallbackSetsOff(t) ==
    /\ timer[t] = "fired"
    /\ stopCalls' = [stopCalls EXCEPT ![t] = @ + 1]
    /\ \E ok \in BOOLEAN : stopFailed' = (stopFailed \/ ~ok)
    /\ timer' = [timer EXCEPT ![t] = "posting"]
    /\ state' = "Off"
    /\ arrival' = Arrive(<< "shutdown", t >>)
    /\ UNCHANGED << autoshutdown, appVars, copyVars, playerCount, loopPc, attempt, reply,
                    handlerVars, conn, shutDownTimer, histVars >>

\* The callback: crafty.StopMcServer is called, its error only logged; the
\* callback then blocks sending on shutdownEmitter.
TimerCallback(t) ==
    /\ timer[t] = "fired"
    /\ stopCalls' = [stopCalls EXCEPT ![t] = @ + 1]
    /\ \E ok \in BOOLEAN : stopFailed' = (stopFailed \/ ~ok)
    /\ timer' = [timer EXCEPT ![t] = "posting"]
    /\ arrival' = Arrive(<< "shutdown", t >>)
    /\ UNCHANGED << autoshutdown, appVars, copyVars, ctrlVars, loopPc, attempt, reply, handlerVars,
                    conn, shutDownTimer, histVars >>

\* The callback of timer t is blocked in its send on shutdownEmitter.  The
\* Connector passes cc.shutdownCh to ScheduleShutdown(shutdownEmitter) of its
\* ServerOperator interface; the operator at hand takes no emitter, so the
\* send (after the Stop command, on the unbuffered channel) follows the
\* design: the fired callback posts an event to the controller.
ShutdownEmitted(t) == timer[t] = "posting"

----------------------------------------------------------------------------
(* Connector *)

\* A shutdownMiddleware that schedules the shutdown whatever autoshutdown is.
shutdownMiddlewareAlways ==
    /\ state' = "Empty"
    /\ ScheduleShutdown

shutdownMiddleware ==
    /\ state' = "Empty"
    /\ IF autoshutdown THEN ScheduleShutdown ELSE UNCHANGED timerVars

\* A StartLoop that calls shutdownMiddleware whatever the probe says.
StartLoopAlwaysEmpty ==
    /\ loopPc = "new"
    /\ \E running \in BOOLEAN : bootRunning' = running
    /\ shutdownMiddleware
    /\ loopPc' = "select"
    /\ UNCHANGED << autoshutdown, appVars, copyVars, playerCount, attempt, reply, handlerVars, conn,
                    startCalls, awaitCalls, failed, stopCalls, stopFailed, arrival >>

\* StartLoop up to the go statement: the reachability probe decides the
\* state the loop starts in.
StartLoop ==
    /\ loopPc = "new"
    /\ \E running \in BOOLEAN :
         /\ bootRunning' = running
         /\ IF running THEN shutdownMiddleware
                       ELSE UNCHANGED << state, timerVars >>
    /\ loopPc' = "select"
    /\ UNCHANGED << autoshutdown, appVars, copyVars, playerCount, attempt, reply, handlerVars, conn,
                    startCalls, awaitCalls, failed, stopCalls, stopFailed, arrival >>

NewConn == CHOOSE c \in Conns : conn[c] = "none" /\ \A d \in Conns : d < c => conn[d] # "none"

\* StartLoop, case <-cc.getConnCh: the rendezvous with the first select of
\* GetConnection; the loop enters processState.
LoopGetConn(h) ==
    /\ loopPc = "select"
    /\ hpc[h] = "getSend"
    /\ Oldest("get") = << "get", h >>
    /\ hpc' = [hpc EXCEPT ![h] = "getWait"]
    /\ loopPc' = "process"
    /\ arrival' = Leave(<< "get", h >>)
    /\ UNCHANGED << autoshutdown, appVars, copyVars, ctrlVars, attempt, reply, hconn, hres, c2s, s2c,
                    conn, timerVars, histVars, stopCalls, stopFailed >>

\* A stateOff case that goes on to StartingUp also when the start failed.
processStateOffAdvances ==
    /\ loopPc = "process"
    /\ state = "Off"
    /\ startCalls' = startCalls + 1
    /\ state' = "StartingUp"
    /\ \E ok \in BOOLEAN :
         IF ok
         THEN UNCHANGED << loopPc, reply, failed >>
         ELSE /\ reply' = [conn |-> 0, err |-> "start"]
              /\ loopPc' = "reply"
              /\ failed' = TRUE
    /\ UNCHANGED << autoshutdown, appVars, copyVars, playerCount, attempt, handlerVars, conn,
                    timerVars, awaitCalls, bootRunning, stopCalls, stopFailed,
                    arrival >>

\* processState, case stateOff: StartMinecraftServer fails or succeeds.
processStateOff ==
    /\ loopPc = "process"
    /\ state = "Off"
    /\ startCalls' = startCalls + 1
    /\ \E ok \in BOOLEAN :
         IF ok
         THEN /\ state' = "StartingUp"
              /\ UNCHANGED << loopPc, reply, failed >>
         ELSE /\ reply' = [conn |-> 0, err |-> "start"]
              /\ loopPc' = "reply"
              /\ failed' = TRUE
              /\ UNCHANGED state
    /\ UNCHANGED << autoshutdown, appVars, copyVars, playerCount, attempt, handlerVars, conn,
                    timerVars, awaitCalls, bootRunning, stopCalls, stopFailed, arrival >>

\* processState, case stateStartingUp: AwaitForServerStart is entered.
processStateStartingUp ==
    /\ loopPc = "process"
    /\ state = "StartingUp"
    /\ loopPc' = "await"
    /\ attempt' = 1
    /\ awaitCalls' = awaitCalls + 1
    /\ UNCHANGED << autoshutdown, appVars, copyVars, ctrlVars, reply, handlerVars, conn, timerVars,
                    startCalls, failed, bootRunning, stopCalls, stopFailed, arrival >>

\* A poll that issues the Start command again after every failed probe.
AwaitForServerStartRestarts ==
    /\ loopPc = "await"
    /\ \/ /\ reply' = [conn |-> 0, err |-> "poll"]
          /\ loopPc' = "reply"
          /\ attempt' = 0
          /\ failed' = TRUE
          /\ UNCHANGED << state, startCalls >>
       \/ /\ attempt <= MaxAttempts
          /\ attempt' = attempt + 1
          /\ startCalls' = startCalls + 1
          /\ UNCHANGED << state, loopPc, reply, failed >>
       \/ /\ state' = "Empty"
          /\ loopPc' = "process"
          /\ attempt' = 0
          /\ UNCHANGED << reply, failed, startCalls >>
    /\ UNCHANGED << autoshutdown, appVars, copyVars, playerCount, handlerVars, conn,
                    timerVars, awaitCalls, bootRunning, stopCalls, stopFailed,
                    arrival >>

\* AwaitForServerStart, one turn of its select: the context is done
\* (ErrTimeoutReached), or a tick whose probe fails or succeeds.  On success
\* processState sets stateEmpty; on the error it returns with the state as
\* it is.
AwaitForServerStart ==
    /\ loopPc = "await"
    /\ \/ /\ reply' = [conn |-> 0, err |-> "poll"]
          /\ loopPc' = "reply"
          /\ attempt' = 0
          /\ failed' = TRUE
          /\ UNCHANGED state
       \/ /\ attempt <= MaxAttempts
          /\ attempt' = attempt + 1
          /\ UNCHANGED << state, loopPc, reply, failed >>
       \/ /\ state' = "Empty"
          /\ loopPc' = "process"
          /\ attempt' = 0
          /\ UNCHANGED << reply, failed >>
    /\ UNCHANGED << autoshutdown, appVars, copyVars, playerCount, handlerVars, conn, timerVars,
                    startCalls, awaitCalls, bootRunning, stopCalls, stopFailed, arrival >>

\* A stateEmpty case that leaves the shutdown timer as it is.
processStateEmptyKeepTimer ==
    /\ loopPc = "process"
    /\ state = "Empty"
    /\ state' = "Running"
    /\ UNCHANGED << autoshutdown, appVars, copyVars, playerCount, loopPc, attempt, reply,
                    handlerVars, conn, timerVars, histVars, stopCalls,
                    stopFailed, arrival >>

\* processState, case stateEmpty.
processStateEmpty ==
    /\ loopPc = "process"
    /\ state = "Empty"
    /\ StopShuttingDown
    /\ state' = "Running"
    /\ UNCHANGED << autoshutdown, appVars, copyVars, playerCount, loopPc, attempt, reply,
                    handlerVars, conn, histVars, stopCalls, stopFailed, arrival >>

\* A stateRunning case that resets the state on success as on failure.
processStateRunningReset ==
    /\ loopPc = "process"
    /\ state = "Running"
    /\ \E ok \in BOOLEAN :
         IF ok
         THEN /\ playerCount' = playerCount + 1
              /\ conn' = [conn EXCEPT ![NewConn] = "made"]
              /\ reply' = [conn |-> NewConn, err |-> "none"]
              /\ state' = "Off"
              /\ UNCHANGED failed
         ELSE /\ state' = "Off"
              /\ reply' = [conn |-> 0, err |-> "dial"]
              /\ failed' = TRUE
              /\ UNCHANGED << playerCount, conn >>
    /\ loopPc' = "reply"
    /\ UNCHANGED << autoshutdown, appVars, copyVars, attempt, handlerVars, timerVars, startCalls,
                    awaitCalls, bootRunning, stopCalls, stopFailed, arrival >>

\* A stateRunning case that stays Running when the dial failed.
processStateRunningStays ==
    /\ loopPc = "process"
    /\ state = "Running"
    /\ \E ok \in BOOLEAN :
         IF ok
         THEN /\ playerCount' = playerCount + 1
              /\ conn' = [conn EXCEPT ![NewConn] = "made"]
              /\ reply' = [conn |-> NewConn, err |-> "none"]
              /\ UNCHANGED failed
         ELSE /\ reply' = [conn |-> 0, err |-> "dial"]
              /\ failed' = TRUE
              /\ UNCHANGED << playerCount, conn >>
    /\ loopPc' = "reply"
    /\ UNCHANGED << autoshutdown, appVars, copyVars, state, attempt, handlerVars, timerVars,
                    startCalls, awaitCalls, bootRunning, stopCalls, stopFailed,
                    arrival >>

\* processState, case stateRunning: ConnectToServer fails or succeeds.
processStateRunning ==
    /\ loopPc = "process"
    /\ state = "Running"
    /\ \E ok \in BOOLEAN :
         IF ok
         THEN /\ playerCount' = playerCount + 1
              /\ conn' = [conn EXCEPT ![NewConn] = "made"]
              /\ reply' = [conn |-> NewConn, err |-> "none"]
              /\ UNCHANGED << state, failed >>
         ELSE /\ state' = "Off"
              /\ reply' = [conn |-> 0, err |-> "dial"]
              /\ failed' = TRUE
              /\ UNCHANGED << playerCount, conn >>
    /\ loopPc' = "reply"
    /\ UNCHANGED << autoshutdown, appVars, copyVars, attempt, handlerVars, timerVars, startCalls,
                    awaitCalls, bootRunning, stopCalls, stopFailed, arrival >>

\* StartLoop, cc.connCh <- connPackage: the rendezvous with the second select
\* of GetConnection.  handleClient goes on to the copy, or to its deferred
\* PutConnection when GetConnection returned an error.
LoopSendConn(h) ==
    /\ loopPc = "reply"
    /\ hpc[h] = "getWait"
    /\ hconn' = [hconn EXCEPT ![h] = reply.conn]
    /\ hres' = [hres EXCEPT ![h] = IF reply.err = "none" THEN "ok" ELSE reply.err]
    /\ IF reply.err = "none"
       THEN /\ hpc' = [hpc EXCEPT ![h] = "copy"]
            /\ c2s' = [c2s EXCEPT ![h] = "run"]
            /\ s2c' = [s2c EXCEPT ![h] = "run"]
            /\ conn' = [conn EXCEPT ![reply.conn] = "held"]
       ELSE /\ hpc' = [hpc EXCEPT ![h] = "put"]
            /\ UNCHANGED << c2s, s2c, conn >>
    /\ reply' = noReply
    /\ loopPc' = "select"
    /\ arrival' = IF reply.err = "none" THEN arrival ELSE Arrive(<< "put", h >>)
    /\ UNCHANGED << autoshutdown, appVars, copyVars, ctrlVars, attempt, timerVars, histVars,
                    stopCalls, stopFailed >>

\* A case conn := <-cc.putConnCh that counts a nil connection too.
LoopPutConnCountsNil(h) ==
    /\ loopPc = "select"
    /\ hpc[h] = "put"
    /\ Oldest("put") = << "put", h >>
    /\ playerCount' = playerCount - 1
    /\ IF playerCount' = 0 THEN shutdownMiddleware
                           ELSE UNCHANGED << state, timerVars >>
    /\ conn' = IF hconn[h] # 0 THEN [conn EXCEPT ![hconn[h]] = "closed"] ELSE conn
    /\ hpc' = [hpc EXCEPT ![h] = "done"]
    /\ c2s' = [c2s EXCEPT ![h] = "none"]
    /\ s2c' = [s2c EXCEPT ![h] = "none"]
    /\ arrival' = Leave(<< "put", h >>)
    /\ UNCHANGED << autoshutdown, appVars, copyVars, loopPc, attempt, reply, hconn, hres, histVars,
                    stopCalls, stopFailed >>

\* A case conn := <-cc.putConnCh that closes the connection and counts it
\* but never calls shutdownMiddleware.
LoopPutConnNoMiddleware(h) ==
    /\ loopPc = "select"
    /\ hpc[h] = "put"
    /\ Oldest("put") = << "put", h >>
    /\ IF hconn[h] # 0
       THEN /\ playerCount' = playerCount - 1
            /\ conn' = [conn EXCEPT ![hconn[h]] = "closed"]
       ELSE UNCHANGED << playerCount, conn >>
    /\ hpc' = [hpc EXCEPT ![h] = "done"]
    /\ c2s' = [c2s EXCEPT ![h] = "none"]
    /\ s2c' = [s2c EXCEPT ![h] = "none"]
    /\ arrival' = Leave(<< "put", h >>)
    /\ UNCHANGED << autoshutdown, appVars, copyVars, state, timerVars, loopPc, attempt, reply,
                    hconn, hres, histVars, stopCalls, stopFailed >>

\* A case conn := <-cc.putConnCh that calls shutdownMiddleware for a nil
\* connection too when no player is counted.
LoopPutConnNilArms(h) ==
    /\ loopPc = "select"
    /\ hpc[h] = "put"
    /\ Oldest("put") = << "put", h >>
    /\ playerCount' = IF hconn[h] # 0 THEN playerCount - 1 ELSE playerCount
    /\ IF playerCount' = 0 THEN shutdownMiddleware
                           ELSE UNCHANGED << state, timerVars >>
    /\ conn' = IF hconn[h] # 0 THEN [conn EXCEPT ![hconn[h]] = "closed"] ELSE conn
    /\ hpc' = [hpc EXCEPT ![h] = "done"]
    /\ c2s' = [c2s EXCEPT ![h] = "none"]
    /\ s2c' = [s2c EXCEPT ![h] = "none"]
    /\ arrival' = Leave(<< "put", h >>)
    /\ UNCHANGED << autoshutdown, appVars, copyVars, loopPc, attempt, reply, hconn, hres, histVars,
                    stopCalls, stopFailed >>

\* StartLoop, case conn := <-cc.putConnCh: the rendezvous with PutConnection,
\* which returns nil; handleClient then closes the client socket and ends.
LoopPutConn(h) ==
    /\ loopPc = "select"
    /\ hpc[h] = "put"
    /\ Oldest("put") = << "put", h >>
    /\ IF hconn[h] # 0
       THEN /\ playerCount' = playerCount - 1
            /\ IF playerCount' = 0 THEN shutdownMiddleware
                                   ELSE UNCHANGED << state, timerVars >>
            /\ conn' = [conn EXCEPT ![hconn[h]] = "closed"]
       ELSE UNCHANGED << ctrlVars, timerVars, conn >>
    /\ hpc' = [hpc EXCEPT ![h] = "done"]
    /\ c2s' = [c2s EXCEPT ![h] = "none"]
    /\ s2c' = [s2c EXCEPT ![h] = "none"]
    /\ arrival' = Leave(<< "put", h >>)
    /\ UNCHANGED << autoshutdown, appVars, copyVars, loopPc, attempt, reply, hconn, hres, histVars,
                    stopCalls, stopFailed >>

\* A case <-cc.shutdownCh that keeps the state when a Stop command failed.
LoopShutdownUnlessFailed(t) ==
    /\ loopPc = "select"
    /\ ShutdownEmitted(t)
    /\ Oldest("shutdown") = << "shutdown", t >>
    /\ timer' = [timer EXCEPT ![t] = "done"]
    /\ state' = IF state = "Empty" /\ ~stopFailed THEN "Off" ELSE state
    /\ arrival' = Leave(<< "shutdown", t >>)
    /\ UNCHANGED << autoshutdown, appVars, copyVars, playerCount, loopPc, attempt, reply,
                    handlerVars, conn, shutDownTimer, histVars, stopCalls,
                    stopFailed >>

\* A case <-cc.shutdownCh that sets stateOff whatever the state is.
LoopShutdownAlwaysOff(t) ==
    /\ loopPc = "select"
    /\ ShutdownEmitted(t)
    /\ Oldest("shutdown") = << "shutdown", t >>
    /\ timer' = [timer EXCEPT ![t] = "done"]
    /\ state' = "Off"
    /\ arrival' = Leave(<< "shutdown", t >>)
    /\ UNCHANGED << autoshutdown, appVars, copyVars, playerCount, loopPc, attempt, reply,
                    handlerVars, conn, shutDownTimer, histVars, stopCalls, stopFailed >>

\* StartLoop, case <-cc.shutdownCh: the rendezvous with the send of a timer
\* callback.
LoopShutdown(t) ==
    /\ loopPc = "select"
    /\ ShutdownEmitted(t)
    /\ Oldest("shutdown") = << "shutdown", t >>
    /\ timer' = [timer EXCEPT ![t] = "done"]
    /\ state' = IF state = "Empty" THEN "Off" ELSE state
    /\ arrival' = Leave(<< "shutdown", t >>)
    /\ UNCHANGED << autoshutdown, appVars, copyVars, playerCount, loopPc, attempt, reply,
                    handlerVars, conn, shutDownTimer, histVars, stopCalls, stopFailed >>

----------------------------------------------------------------------------
(* Server: the acceptor and the handlers *)

\* ListenAndProxy: Accept returns a client socket and handleClient starts in
\* its own goroutine, entering the first select of GetConnection.  Clients are
\* numbered in the order they are accepted.
Accept(h) ==
    /\ loopPc # "new"
    /\ hpc[h] = "idle"
    /\ \A g \in Handlers : g < h => hpc[g] # "idle"
    /\ hpc' = [hpc EXCEPT ![h] = "getSend"]
    /\ arrival' = Arrive(<< "get", h >>)
    /\ UNCHANGED << autoshutdown, appVars, copyVars, ctrlVars, loopPc, attempt, reply, hconn, hres,
                    c2s, s2c, conn, timerVars, histVars, stopCalls, stopFailed >>

\* GetConnection, case <-ctxWithTimeout.Done() of either select: the caller
\* gets (nil, context.Canceled) and handleClient runs its deferred
\* PutConnection with the nil connection.
GetConnectionCancel(h) ==
    /\ \/ hpc[h] = "getSend" /\ loopPc # "select"
       \/ hpc[h] = "getWait" /\ loopPc # "reply"
    /\ hpc' = [hpc EXCEPT ![h] = "put"]
    /\ hres' = [hres EXCEPT ![h] = "cancel"]
    /\ arrival' = Append(Leave(<< "get", h >>), << "put", h >>)
    /\ UNCHANGED << autoshutdown, appVars, copyVars, ctrlVars, loopPc, attempt, reply, hconn, c2s,
                    s2c, conn, timerVars, histVars, stopCalls, stopFailed >>

\* io.Copy(serverConnection, client) returns, at EOF or with an error.
CopyClientToServer(h) ==
    /\ hpc[h] = "copy"
    /\ c2s[h] = "run"
    /\ \E how \in {"eof", "err"} : c2s' = [c2s EXCEPT ![h] = how]
    /\ UNCHANGED << autoshutdown, appVars, copyVars, ctrlVars, loopPc, attempt, reply, hpc, hconn,
                    hres, s2c, conn, timerVars, histVars, stopCalls, stopFailed, arrival >>

\* io.Copy(client, serverConnection) returns in the second goroutine, at EOF
\* or with an error; the goroutine then sends on completed.
CopyServerToClient(h) ==
    /\ hpc[h] = "copy"
    /\ s2c[h] = "run"
    /\ \E how \in {"eof", "err"} : s2c' = [s2c EXCEPT ![h] = how]
    /\ UNCHANGED << autoshutdown, appVars, copyVars, ctrlVars, loopPc, attempt, reply, hpc, hconn,
                    hres, c2s, conn, timerVars, histVars, stopCalls, stopFailed, arrival >>

\* A handleClient that returns without receiving from completed.
handleClientReturnEarly(h) ==
    /\ hpc[h] = "copy"
    /\ c2s[h] # "run"
    /\ hpc' = [hpc EXCEPT ![h] = "put"]
    /\ arrival' = Arrive(<< "put", h >>)
    /\ UNCHANGED << autoshutdown, appVars, copyVars, ctrlVars, loopPc, attempt, reply, hconn, hres,
                    c2s, s2c, conn, timerVars, histVars, stopCalls, stopFailed >>

\* handleClient after its own io.Copy: <-completed, return nil; the deferred
\* PutConnection is called with serverConnection.
handleClientReturn(h) ==
    /\ hpc[h] = "copy"
    /\ c2s[h] # "run"
    /\ s2c[h] # "run"
    /\ hpc' = [hpc EXCEPT ![h] = "put"]
    /\ arrival' = Arrive(<< "put", h >>)
    /\ UNCHANGED << autoshutdown, appVars, copyVars, ctrlVars, loopPc, attempt, reply, hconn, hres,
                    c2s, s2c, conn, timerVars, histVars, stopCalls, stopFailed >>

\* PutConnection, case <-ctxWithTimeout.Done(): context.Canceled is logged,
\* handleClient closes the client socket and ends.
PutConnectionCancel(h) ==
    /\ hpc[h] = "put"
    /\ loopPc # "select"
    /\ hpc' = [hpc EXCEPT ![h] = "doneCanceled"]
    /\ c2s' = [c2s EXCEPT ![h] = "none"]
    /\ s2c' = [s2c EXCEPT ![h] = "none"]
    /\ arrival' = Leave(<< "put", h >>)
    /\ UNCHANGED << autoshutdown, appVars, copyVars, ctrlVars, loopPc, attempt, reply, hconn, hres,
                    conn, timerVars, histVars, stopCalls, stopFailed >>

----------------------------------------------------------------------------

Loop ==
    \/ StartLoop
    \/ processStateOff
    \/ processStateStartingUp
    \/ AwaitForServerStart
    \/ processStateEmpty
    \/ processStateRunning
    \/ \E h \in Handlers : LoopGetConn(h)
    \/ \E h \in Handlers : LoopSendConn(h)
    \/ \E h \in Handlers : LoopPutConn(h)
    \/ \E t \in Timers : LoopShutdown(t)

TimerStep ==
    \/ \E t \in Timers : TimerFire(t)
    \/ \E t \in Timers : TimerCallback(t)

Handler ==
    \/ \E h \in Handlers : Accept(h)
    \/ \E h \in Handlers : GetConnectionCancel(h)
    \/ \E h \in Handlers : CopyClientToServer(h)
    \/ \E h \in Handlers : CopyServerToClient(h)
    \/ \E h \in Handlers : handleClientReturn(h)
    \/ \E h \in Handlers : PutConnectionCancel(h)

Next == Loop \/ TimerStep \/ Handler

Spec == Init /\ [][Next]_vars

\* An accept error that ListenAndProxy returns to app.Run, which ends the
\* process.
AcceptErrorFatal ==
    /\ loopPc # "new"
    /\ acceptErrors < MaxAcceptErrors
    /\ acceptErrors' = acceptErrors + 1
    /\ alive' = FALSE
    /\ UNCHANGED << autoshutdown, route, copyVars, ctrlVars, loopPc, attempt, reply,
                    handlerVars, conn, timerVars, histVars, stopCalls, stopFailed,
                    arrival >>

\* ListenAndProxy, listener.Accept returns an error: it is logged and the
\* for loop goes to the next Accept.
AcceptError ==
    /\ loopPc # "new"
    /\ acceptErrors < MaxAcceptErrors
    /\ acceptErrors' = acceptErrors + 1
    /\ UNCHANGED << autoshutdown, route, alive, copyVars, ctrlVars, loopPc, attempt,
                    reply, handlerVars, conn, timerVars, histVars, stopCalls,
                    stopFailed, arrival >>

\* The route with a listener whose Accept may fail.
AcceptNext == Next \/ AcceptError

AcceptSpec == Init /\ [][AcceptNext]_vars

\* Goroutines that can run do run, and an armed timer fires: the loop and
\* the timer callbacks are weakly fair.  Clients arrive, copy and give up at
\* times of their own.
LiveSpec == Spec /\ WF_vars(Loop) /\ WF_vars(TimerStep)

\* The ServerOperator taken by itself, as its interface lets any caller use
\* it: ScheduleShutdown and StopShuttingDown called in any order, the timers
\* firing and their callbacks running in between.
CallScheduleShutdown ==
    /\ \E t \in Timers : timer[t] = "none"
    /\ ScheduleShutdown
    /\ UNCHANGED << autoshutdown, appVars, copyVars, ctrlVars, loopPc, attempt, reply, handlerVars,
                    conn, histVars, stopCalls, stopFailed, arrival >>

CallStopShuttingDown ==
    /\ StopShuttingDown
    /\ UNCHANGED << autoshutdown, appVars, copyVars, ctrlVars, loopPc, attempt, reply, handlerVars,
                    conn, histVars, stopCalls, stopFailed, arrival >>

OperatorNext ==
    \/ CallScheduleShutdown
    \/ CallStopShuttingDown
    \/ \E t \in Timers : TimerFire(t)
    \/ \E t \in Timers : TimerCallback(t)

OperatorSpec == Init /\ [][OperatorNext]_vars

----------------------------------------------------------------------------
(* handleClient: the two copy directions of one session, byte by byte *)

\* The peer whose socket direction d writes to is the source of the other
\* direction.
Opposite(d) == IF d = "c2s" THEN "s2c" ELSE "c2s"

\* The io.Copy of direction d in the handler of the first client.
copyState(d) == IF d = "c2s" THEN c2s[1] ELSE s2c[1]

SetCopyState(d, v) ==
    IF d = "c2s" THEN c2s' = [c2s EXCEPT ![1] = v] /\ UNCHANGED s2c
                 ELSE s2c' = [s2c EXCEPT ![1] = v] /\ UNCHANGED c2s

sessionVars == << autoshutdown, ctrlVars, loopPc, attempt, reply, hpc, hconn,
                  hres, conn, timerVars, histVars, stopCalls, stopFailed,
                  arrival, appVars >>

\* The first client has been given a backend connection and its handler has
\* started both copies; nothing has been written yet.
InitCopy ==
    /\ autoshutdown \in BOOLEAN
    /\ state = "Running"
    /\ playerCount = 1
    /\ loopPc = "select"
    /\ attempt = 0
    /\ reply = noReply
    /\ hpc = [h \in Handlers |-> IF h = 1 THEN "copy" ELSE "idle"]
    /\ hconn = [h \in Handlers |-> IF h = 1 THEN 1 ELSE 0]
    /\ hres = [h \in Handlers |-> IF h = 1 THEN "ok" ELSE "none"]
    /\ c2s = [h \in Handlers |-> IF h = 1 THEN "run" ELSE "none"]
    /\ s2c = [h \in Handlers |-> IF h = 1 THEN "run" ELSE "none"]
    /\ conn = [c \in Conns |-> IF c = 1 THEN "held" ELSE "none"]
    /\ timer = [t \in Timers |-> "none"]
    /\ shutDownTimer = 0
    /\ startCalls = 1
    /\ awaitCalls = 1
    /\ stopCalls = [t \in Timers |-> 0]
    /\ stopFailed = FALSE
    /\ failed = FALSE
    /\ bootRunning = FALSE
    /\ arrival = << >>
    /\ sent = [d \in Dirs |-> << >>]
    /\ srcEnd = [d \in Dirs |-> "open"]
    /\ taken = [d \in Dirs |-> 0]
    /\ buf = [d \in Dirs |-> << >>]
    /\ delivered = [d \in Dirs |-> << >>]
    /\ route = [r \in Routes |-> newRoute]
    /\ alive = TRUE
    /\ acceptErrors = 0

\* The source peer of direction d writes one more byte on its socket.
PeerWrite(d) ==
    /\ srcEnd[d] = "open"
    /\ Len(sent[d]) < MaxBytes
    /\ \E b \in Bytes : sent' = [sent EXCEPT ![d] = Append(@, b)]
    /\ UNCHANGED << sessionVars, c2s, s2c, srcEnd, taken, buf, delivered >>

\* The source peer of direction d closes its socket, in order ("closed": the
\* reader gets what was written, then EOF) or abruptly ("reset": the reader
\* gets an error).
PeerClose(d) ==
    /\ srcEnd[d] = "open"
    /\ \E how \in {"closed", "reset"} : srcEnd' = [srcEnd EXCEPT ![d] = how]
    /\ UNCHANGED << sessionVars, c2s, s2c, sent, taken, buf, delivered >>

\* io.Copy, src.Read: some of the bytes that have arrived, or EOF after the
\* last byte of a stream closed in order (io.Copy returns nil), or the error
\* of a reset connection (io.Copy returns it).
CopyRead(d) ==
    /\ hpc[1] = "copy"
    /\ copyState(d) = "run"
    /\ buf[d] = << >>
    /\ \/ /\ \E n \in 1..MaxChunk :
               /\ taken[d] + n <= Len(sent[d])
               /\ buf' = [buf EXCEPT ![d] = SubSeq(sent[d], taken[d] + 1, taken[d] + n)]
               /\ taken' = [taken EXCEPT ![d] = @ + n]
          /\ UNCHANGED << c2s, s2c >>
       \/ /\ srcEnd[d] = "closed"
          /\ taken[d] = Len(sent[d])
          /\ SetCopyState(d, "eof")
          /\ UNCHANGED << taken, buf >>
       \/ /\ srcEnd[d] = "reset"
          /\ SetCopyState(d, "err")
          /\ UNCHANGED << taken, buf >>
    /\ UNCHANGED << sessionVars, sent, srcEnd, delivered >>

\* A dst.Write that reports the bytes written without writing them.
CopyWriteDrops(d) ==
    /\ hpc[1] = "copy"
    /\ copyState(d) = "run"
    /\ buf[d] # << >>
    /\ buf' = [buf EXCEPT ![d] = << >>]
    /\ UNCHANGED << sessionVars, c2s, s2c, sent, srcEnd, taken, delivered >>

\* io.Copy, dst.Write of the bytes just read: they go out on the other
\* socket, or the write fails (io.Copy returns the error), which it can only
\* once the peer of that socket has closed it.
CopyWrite(d) ==
    /\ hpc[1] = "copy"
    /\ copyState(d) = "run"
    /\ buf[d] # << >>
    /\ buf' = [buf EXCEPT ![d] = << >>]
    /\ \/ /\ srcEnd[Opposite(d)] # "reset"
          /\ delivered' = [delivered EXCEPT ![d] = @ \o buf[d]]
          /\ UNCHANGED << c2s, s2c >>
       \/ /\ srcEnd[Opposite(d)] # "open"
          /\ SetCopyState(d, "err")
          /\ UNCHANGED delivered
    /\ UNCHANGED << sessionVars, sent, srcEnd, taken >>

CopyNext ==
    \/ \E d \in Dirs : PeerWrite(d)
    \/ \E d \in Dirs : PeerClose(d)
    \/ \E d \in Dirs : CopyRead(d)
    \/ \E d \in Dirs : CopyWrite(d)

CopySpec == InitCopy /\ [][CopyNext]_vars

----------------------------------------------------------------------------
(* app.Run: the routes of one process, each event of a route in one step *)

oneRouteVars == << autoshutdown, ctrlVars, loopPc, attempt, reply, handlerVars,
                   conn, timerVars, histVars, stopCalls, stopFailed, arrival,
                   copyVars, acceptErrors >>

\* shutdownMiddleware of route r, applied to its record.
RouteEmpty(rec) ==
    [rec EXCEPT !.st = "Empty", !.tm = IF autoshutdown THEN "armed" ELSE @]

\* ListenAndProxy of route r: StartLoop, then net.Listen succeeds and the
\* acceptor runs.
RouteListen(r) ==
    /\ alive
    /\ route[r].lp = "new"
    /\ \E running \in BOOLEAN :
         route' = [route EXCEPT ![r] =
                     [(IF running THEN RouteEmpty(@) ELSE @) EXCEPT !.lp = "select"]]
    /\ UNCHANGED << oneRouteVars, alive >>

\* ListenAndProxy of route r returns the error of net.Listen and app.Run
\* calls log.Fatal: the process exits, with every route in it.
RouteListenFails(r) ==
    /\ alive
    /\ route[r].lp = "new"
    /\ alive' = FALSE
    /\ UNCHANGED << oneRouteVars, route >>

\* The loop of route r receives a GetConnection and runs processState to its
\* end: the start fails; or the poll times out; or the dial fails; or the
\* dial succeeds.  Then it sends the reply, which blocks it for good when
\* the caller has left at its deadline.
RouteAcquire(r) ==
    /\ alive
    /\ route[r].lp = "select"
    /\ \E res \in {"start", "poll", "dial", "ok"}, left \in BOOLEAN :
         /\ res = "start" => route[r].st = "Off"
         /\ res = "poll" => route[r].st \in {"Off", "StartingUp"}
         /\ res = "ok" => route[r].pc < NumHandlers
         /\ route' = [route EXCEPT ![r] =
              [st |-> CASE res = "start" -> "Off"
                        [] res = "poll" -> "StartingUp"
                        [] res = "dial" -> "Off"
                        [] res = "ok" -> "Running",
               pc |-> IF res = "ok" THEN @.pc + 1 ELSE @.pc,
               tm |-> IF res \in {"dial", "ok"} /\ @.tm = "armed"
                      THEN "none" ELSE @.tm,
               lp |-> IF left THEN "blocked" ELSE "select"]]
    /\ UNCHANGED << oneRouteVars, alive >>

\* The loop of route r receives the PutConnection of a held connection.
RouteRelease(r) ==
    /\ alive
    /\ route[r].lp = "select"
    /\ route[r].pc > 0
    /\ route' = [route EXCEPT ![r] =
                   IF @.pc = 1 THEN [RouteEmpty(@) EXCEPT !.pc = 0]
                               ELSE [@ EXCEPT !.pc = @ - 1]]
    /\ UNCHANGED << oneRouteVars, alive >>

\* A timer of route r that sets off the timers of all routes.
RouteTimerFireAll(r) ==
    /\ alive
    /\ route[r].tm = "armed"
    /\ route' = [q \in Routes |->
                   [route[q] EXCEPT !.tm = IF @ = "armed" THEN "fired" ELSE @]]
    /\ UNCHANGED << oneRouteVars, alive >>

\* The timer of route r fires and its callback calls StopMcServer for the
\* port of r, whatever the outcome.
RouteTimerFire(r) ==
    /\ alive
    /\ route[r].tm = "armed"
    /\ route' = [route EXCEPT ![r].tm = "fired"]
    /\ UNCHANGED << oneRouteVars, alive >>

\* The loop of route r receives the event of its fired timer.
RouteShutdown(r) ==
    /\ alive
    /\ route[r].lp = "select"
    /\ route[r].tm = "fired"
    /\ route' = [route EXCEPT ![r] =
                   [@ EXCEPT !.tm = "none",
                             !.st = IF @ = "Empty" THEN "Off" ELSE @]]
    /\ UNCHANGED << oneRouteVars, alive >>

RouteStep(r) ==
    \/ RouteListen(r)
    \/ RouteListenFails(r)
    \/ RouteAcquire(r)
    \/ RouteRelease(r)
    \/ RouteTimerFire(r)
    \/ RouteShutdown(r)

AppNext == \E r \in Routes : RouteStep(r)

AppSpec == Init /\ [][AppNext]_vars

TypeOK ==
    /\ autoshutdown \in BOOLEAN
    /\ state \in {"Off", "StartingUp", "Running", "Empty"}
    /\ playerCount \in Int
    /\ loopPc \in {"new", "select", "process", "await", "reply"}
    /\ attempt \in 0..(MaxAttempts + 1)
    /\ reply \in [conn : 0..NumHandlers, err : {"none", "start", "poll", "dial"}]
    /\ hpc \in [Handlers -> {"idle", "getSend", "getWait", "copy", "put", "done",
                         "doneCanceled"}]
    /\ hconn \in [Handlers -> 0..NumHandlers]
    /\ hres \in [Handlers -> {"none", "ok", "cancel", "start", "poll", "dial"}]
    /\ c2s \in [Handlers -> {"none", "run", "eof", "err"}]
    /\ s2c \in [Handlers -> {"none", "run", "eof", "err"}]
    /\ conn \in [Conns -> {"none", "made", "held", "closed"}]
    /\ timer \in [Timers -> {"none", "armed", "stopped", "fired", "posting", "done"}]
    /\ shutDownTimer \in 0..(NumHandlers + 1)
    /\ startCalls \in 0..NumHandlers
    /\ awaitCalls \in 0..NumHandlers
    /\ stopCalls \in [Timers -> 0..1]
    /\ stopFailed \in BOOLEAN
    /\ failed \in BOOLEAN
    /\ bootRunning \in BOOLEAN
    /\ arrival \in Seq({"get", "put", "shutdown"} \X (1..(NumHandlers + 1)))
    /\ sent \in [Dirs -> Seq(Bytes)]
    /\ srcEnd \in [Dirs -> {"open", "closed", "reset"}]
    /\ taken \in [Dirs -> 0..MaxBytes]
    /\ buf \in [Dirs -> Seq(Bytes)]
    /\ delivered \in [Dirs -> Seq(Bytes)]
    /\ route \in [Routes -> [st : {"Off", "StartingUp", "Running", "Empty"},
                             pc : 0..NumHandlers,
                             tm : {"none", "armed", "fired"},
                             lp : {"new", "select", "blocked"}]]
    /\ alive \in BOOLEAN
    /\ acceptErrors \in 0..MaxAcceptErrors

----------------------------------------------------------------------------
(* Claims *)

Finished(h) == hpc[h] \in {"done", "doneCanceled"}

\* The loop holds a reply that no caller is waiting for: the caller whose
\* request it accepted has returned from GetConnection at its deadline.
Orphaned == loopPc = "reply" /\ \A h \in Handlers : hpc[h] # "getWait"

\* The route has left Off only by start-up: no start, poll or dial has
\* failed and no timer-fired event has been consumed.
NoFailureNoShutdown == ~failed /\ \A t \in Timers : timer[t] # "done"

\* C1: with no start, poll or dial failure (and no idle shutdown in between),
\* however many handlers call GetConnection the loop calls
\* StartMinecraftServer at most once and AwaitForServerStart at most once,
\* and exactly once each when the route started Off and a caller was served.
C1_OneStartOnePoll ==
    NoFailureNoShutdown =>
        /\ startCalls <= 1
        /\ awaitCalls <= 1
        /\ (~bootRunning /\ \E h \in Handlers : hres[h] = "ok") =>
               (startCalls = 1 /\ awaitCalls = 1)

C1_Witness ==
    /\ NoFailureNoShutdown
    /\ ~bootRunning
    /\ \A h \in Handlers : hpc[h] = "copy"
    /\ playerCount = NumHandlers
    /\ startCalls = 1
    /\ awaitCalls = 1

\* C2: the loop is never blocked inside the handling of a getConnCh event,
\* also when the caller has given up on the reply: it can always take its
\* next step, so it gets back to its select and serves the next event.
C2_LoopNeverBlocked ==
    (loopPc \in {"process", "await", "reply"}) => ENABLED Loop

\* What the code does instead: a loop that holds an orphaned reply holds it
\* for good, whatever clients arrive later.
OrphanedForever == [][Orphaned => Orphaned']_vars

\* C3: a connection dialled for a caller that has given up is eventually
\* closed by the controller; for that, the loop that holds it is able to go
\* on.
C3_OrphanClosed ==
    /\ \A c \in Conns :
          (Orphaned /\ reply.conn = c /\ conn[c] = "made") ~> (conn[c] = "closed")
    /\ []((Orphaned /\ reply.conn # 0) => ENABLED Loop)

\* The start has completed for a caller that was cancelled during it: one
\* Start, one poll, a connection dialled, nobody waiting for the reply.
StartedForCancelled ==
    Orphaned /\ reply.err = "none" /\ startCalls = 1 /\ awaitCalls = 1

\* C4: once a caller was cancelled during the start-up and the start has
\* completed, a caller waiting in GetConnection eventually gets a
\* connection, with still one Start; it is not sent away with a
\* cancellation.
C4_LaterAcquireSucceeds ==
    /\ \A h \in Handlers :
          (StartedForCancelled /\ hpc[h] = "getSend")
              ~> (hres[h] = "ok" /\ startCalls = 1)
    /\ [][\A h \in Handlers :
            (StartedForCancelled /\ hpc[h] = "getSend") => hres'[h] # "cancel"]_vars

\* C5: playerCount is never negative.
C5_PlayerCountNonNegative == playerCount >= 0

C5_Witness ==
    /\ playerCount = 0
    /\ \E h, g \in Handlers :
          /\ hpc[h] = "done" /\ hres[h] \in {"cancel", "start", "poll", "dial"}
          /\ hpc[g] = "done" /\ hres[g] = "ok" /\ conn[hconn[g]] = "closed"

\* C6: with autoshutdown off no timer is ever made and StopMcServer is never
\* called.
C6_NoTimerNoStop ==
    ~autoshutdown =>
        /\ shutDownTimer = 0
        /\ \A t \in Timers : timer[t] = "none" /\ stopCalls[t] = 0

C6_Witness ==
    /\ ~autoshutdown
    /\ bootRunning
    /\ state = "Empty"
    /\ playerCount = 0
    /\ \E h \in Handlers : hpc[h] = "done" /\ hres[h] = "ok"

\* C7: the stateEmpty step of processState stops every timer that is armed
\* and has not fired and sets stateRunning; a stopped timer stays stopped and
\* StopMcServer is never called for it.
C7_AcquireCancelsTimer ==
    /\ [][\A t \in Timers :
            (state = "Empty" /\ state' = "Running" /\ timer[t] = "armed")
                => timer'[t] = "stopped"]_vars
    /\ [][\A t \in Timers : timer[t] = "stopped" => timer'[t] = "stopped"]_vars
    /\ [](\A t \in Timers : timer[t] = "stopped" => stopCalls[t] = 0)

C7_Witness ==
    /\ state = "Running"
    /\ loopPc = "process"
    /\ \E t \in Timers : timer[t] = "stopped"
    /\ \E h \in Handlers : hpc[h] = "done" /\ hres[h] = "ok"

C9_ReleaseOnceAfterCopy ==
    /\ [][\A h \in Handlers :
            (hpc[h] # "put" /\ hpc'[h] = "put") =>
                \/ /\ hres'[h] = "ok" /\ hconn[h] # 0 /\ hpc[h] = "copy"
                   /\ c2s[h] \in {"eof", "err"} /\ s2c[h] \in {"eof", "err"}
                \/ hres'[h] # "ok" /\ hconn[h] = 0]_vars
    /\ [][\A h \in Handlers :
            /\ (~Finished(h) /\ Finished(h)') => hpc[h] = "put"
            /\ Finished(h) => hpc'[h] = hpc[h]
            /\ hpc[h] = "copy" => hpc'[h] \in {"copy", "put"}]_vars

C9_Witness ==
    \E h \in Handlers :
        /\ hpc[h] = "put" /\ hconn[h] # 0
        /\ c2s[h] = "err" /\ s2c[h] = "eof"

\* C10: a handler that has ended after a successful GetConnection has had
\* its backend connection closed (and with it its player counted out).
C10_ReleasedOnEveryPath ==
    \A h \in Handlers :
        (Finished(h) /\ hconn[h] # 0) => conn[hconn[h]] = "closed"

\* C11: at most one timer is armed (made by ScheduleShutdown, not stopped,
\* not yet fired) at any time, and it is the one the operator's field holds.
\* A timer whose callback is running is no longer armed.
C11_OneArmedTimer ==
    /\ Cardinality({t \in Timers : timer[t] = "armed"}) <= 1
    /\ \A t \in Timers : timer[t] = "armed" => shutDownTimer = t

C11_Witness ==
    \E t, u \in Timers :
        /\ timer[t] = "posting"
        /\ timer[u] = "armed"
        /\ state = "Empty"

\* C12: a ScheduleShutdown called while a timer made by an earlier call is
\* armed stops that timer, which then never fires: the new timer is the only
\* one armed.
C12_RearmCancelsPrevious ==
    /\ [][\A t \in Timers :
            (timer[t] = "armed" /\ shutDownTimer' \notin {0, shutDownTimer})
                => timer'[t] = "stopped"]_vars
    /\ [][\A t \in Timers : timer[t] = "stopped" => timer'[t] = "stopped"]_vars
    /\ [](Cardinality({t \in Timers : timer[t] = "armed"}) <= 1)

\* C13: when AwaitForServerStart gives up at the startup timeout, the loop
\* has the poll error to hand to the caller, playerCount is as it was and
\* the state is Off, so that the next GetConnection starts the server again.
C13_PollTimeoutToOff ==
    [][(loopPc = "await" /\ loopPc' = "reply") =>
          /\ reply'.err = "poll"
          /\ playerCount' = playerCount
          /\ state' = "Off"]_vars

\* The loop hands the error e to the caller that waits for the reply, with
\* no connection, and does nothing else on the way: the state, the count and
\* the numbers of Start and poll calls are what they were when e was made.
ErrorReturned(e) ==
    /\ (loopPc = "reply" /\ reply.err = e) =>
          /\ reply.conn = 0
          /\ UNCHANGED << state, playerCount, startCalls, awaitCalls >>
    /\ \A h \in Handlers :
          (reply.err = e /\ hpc[h] = "getWait" /\ loopPc' = "select") =>
              (hres'[h] = e /\ hconn'[h] = 0 /\ hpc'[h] = "put")

\* C14: a StartMinecraftServer that fails in state Off ends the processState
\* of that GetConnection: the state stays Off, playerCount is unchanged, no
\* poll is run, Start is not called a second time, and the caller is handed
\* the start error.
C14_StartFailureStaysOff ==
    /\ [][(startCalls' # startCalls) =>
             /\ state = "Off" /\ startCalls' = startCalls + 1
             /\ playerCount' = playerCount /\ awaitCalls' = awaitCalls
             /\ \/ state' = "StartingUp" /\ loopPc' = "process" /\ reply' = noReply
                \/ state' = "Off" /\ loopPc' = "reply" /\ reply'.err = "start"]_vars
    /\ [][ErrorReturned("start")]_vars
    /\ []((loopPc = "reply" /\ reply.err = "start") => state = "Off")

C14_Witness ==
    /\ state = "Off"
    /\ playerCount = 0
    /\ startCalls = 1
    /\ awaitCalls = 0
    /\ loopPc = "select"
    /\ \E h \in Handlers : hres[h] = "start" /\ hconn[h] = 0

\* C15: a ConnectToServer that fails in state Running leaves playerCount as
\* it is and sets the state Off, and the caller is handed the dial error; a
\* dial that succeeds counts the player and stays Running.
C15_DialFailureToOff ==
    /\ [][(loopPc = "process" /\ state = "Running" /\ loopPc' = "reply") =>
             \/ /\ reply'.err = "dial" /\ reply'.conn = 0
                /\ playerCount' = playerCount /\ state' = "Off"
             \/ /\ reply'.err = "none" /\ reply'.conn # 0
                /\ playerCount' = playerCount + 1 /\ state' = "Running"]_vars
    /\ [][ErrorReturned("dial")]_vars
    /\ []((loopPc = "reply" /\ reply.err = "dial") => state = "Off")

C15_Witness ==
    /\ state = "Off"
    /\ playerCount = 1
    /\ loopPc = "select"
    /\ \E h, g \in Handlers :
          /\ hres[h] = "dial" /\ hconn[h] = 0
          /\ hpc[g] = "copy"

Received(e) ==
    /\ loopPc = "select"
    /\ arrival' = Leave(e)
    /\ \/ e[1] = "get" /\ hpc'[e[2]] = "getWait"
       \/ e[1] = "put" /\ hpc'[e[2]] = "done"
       \/ e[1] = "shutdown" /\ timer'[e[2]] = "done"

\* C17: the loop takes the GetConnection, PutConnection and timer events in
\* the order in which they were submitted: the one it receives is the oldest
\* one pending.
C17_ArrivalOrder ==
    [][\A i \in 1..Len(arrival) : Received(arrival[i]) => i = 1]_vars

C19_BytesRelayed ==
    \A d \in Dirs :
        /\ Len(delivered[d]) <= Len(sent[d])
        /\ delivered[d] = SubSeq(sent[d], 1, Len(delivered[d]))
        /\ copyState(d) = "run" =>
               delivered[d] \o buf[d] = SubSeq(sent[d], 1, taken[d])
        /\ copyState(d) = "eof" => delivered[d] = sent[d]
        /\ copyState(d) = "err" =>
               \/ delivered[d] = SubSeq(sent[d], 1, taken[d])
               \/ srcEnd[Opposite(d)] # "open"

\* The client wrote MaxBytes bytes, not all the same, and reset its
\* connection: all of them were passed on; the backend wrote nothing and
\* closed: the empty stream ended at EOF.
C19_Witness ==
    /\ c2s[1] = "err"
    /\ srcEnd["c2s"] = "reset"
    /\ Len(sent["c2s"]) = MaxBytes
    /\ sent["c2s"][1] # sent["c2s"][MaxBytes]
    /\ delivered["c2s"] = sent["c2s"]
    /\ s2c[1] = "eof"
    /\ sent["s2c"] = << >>

\* The run of the scenario is over: with autoshutdown on and the backend off
\* at StartLoop, the first client was served and left, the first timer was
\* stopped (the second client came before it fired), the second client was
\* served and left, the second timer fired and its event was consumed;
\* nothing failed and nobody else came.
ScenarioOver ==
    /\ autoshutdown /\ ~bootRunning /\ ~failed
    /\ \A h \in Handlers :
          IF h <= 2 THEN hpc[h] = "done" /\ hres[h] = "ok" ELSE hpc[h] = "idle"
    /\ timer[1] = "stopped"
    /\ timer[2] = "done"
    /\ \A t \in Timers : t > 2 => timer[t] = "none"

C21_RoutesIndependent ==
    [][alive' =>
         /\ \A r, q \in Routes :
              (r # q /\ route'[r] # route[r]) => route'[q] = route[q]
         /\ \A q \in Routes :
              route'[q].lp = "select" => (ENABLED RouteAcquire(q))']_vars

C21_Witness ==
    /\ alive
    /\ \E r, q \in Routes :
         /\ route[r].lp = "blocked"
         /\ route[q].lp = "select"
         /\ route[q].st = "Running"
         /\ route[q].pc > 0


\* C22: a handler whose GetConnection returned an error (start failure, poll
\* timeout, dial failure or cancellation) holds no backend connection and
\* runs neither copy direction; all it does is its deferred PutConnection,
\* and the step that ends it, whether the loop takes the nil connection or
\* the deadline expires, leaves playerCount and the state as they were.
C22_FailedAcquireCleanup ==
    [][\A h \in Handlers :
         /\ hres[h] \in {"start", "poll", "dial", "cancel"} =>
              /\ hpc[h] \in {"put", "done", "doneCanceled"}
              /\ hconn[h] = 0
              /\ c2s[h] = "none" /\ s2c[h] = "none"
         /\ (hres[h] \in {"start", "poll", "dial", "cancel"} /\ hpc'[h] # hpc[h]) =>
              /\ hpc[h] = "put"
              /\ Finished(h)'
              /\ ctrlVars' = ctrlVars]_vars

C22_Witness ==
    /\ playerCount = 1
    /\ state = "Running"
    /\ \E h \in Handlers : hres[h] = "cancel" /\ hpc[h] = "done"


\* C23: a GetConnection whose deadline expires returns context.Canceled and
\* changes neither the state nor playerCount, and the loop, when it goes on
\* with the request of a caller that has left, does not count a player for
\* it.
C23_ExpiredAcquireNotCounted ==
    [][/\ \A h \in Handlers :
            (hpc[h] \in {"getSend", "getWait"} /\ hpc'[h] = "put"
                                               /\ hres'[h] = "cancel") =>
              ctrlVars' = ctrlVars
       /\ (loopPc \notin {"new", "select"} /\ \A h \in Handlers : hpc[h] # "getWait") =>
              playerCount' = playerCount]_vars


\* C24: playerCount reaches 0 only in a Running -> Empty transition, and
\* between two events of the loop no player is counted while the state is
\* Off or StartingUp.
C24_ZeroOnlyFromRunning ==
    [][/\ (playerCount > 0 /\ playerCount' = 0) =>
              (state = "Running" /\ state' = "Empty")
       /\ (loopPc = "select" /\ state \in {"Off", "StartingUp"}) =>
              playerCount = 0]_vars


\* C25: when the loop takes the Release of an acquired connection it
\* decrements playerCount by exactly 1 and closes the backend connection; if
\* the count reaches 0 the state becomes Empty and a timer is armed if and
\* only if autoshutdown is set; otherwise state and timer stay as they were.
C25_Release ==
    [][\A h \in Handlers :
         (loopPc = "select" /\ hpc[h] = "put" /\ hconn[h] # 0 /\ hpc'[h] = "done") =>
           /\ playerCount' = playerCount - 1
           /\ conn'[hconn[h]] = "closed"
           /\ IF playerCount' = 0
              THEN /\ state' = "Empty"
                   /\ IF autoshutdown
                      THEN /\ shutDownTimer' # 0
                           /\ timer[shutDownTimer'] = "none"
                           /\ timer'[shutDownTimer'] = "armed"
                      ELSE /\ timerVars' = timerVars
                           /\ \A t \in Timers : timer'[t] # "armed"
              ELSE /\ state' = state
                   /\ timerVars' = timerVars]_vars

\* Both handlers held a connection and both releases were taken, with a
\* timer armed by the last.
C25_Witness ==
    /\ \A h \in Handlers : hpc[h] = "done" /\ hres[h] = "ok"
    /\ playerCount = 0
    /\ state = "Empty"
    /\ autoshutdown
    /\ \A c \in Conns : conn[c] = "closed"
    /\ shutDownTimer # 0 /\ timer[shutDownTimer] = "armed"


\* C26: a request the loop processes in state Running goes straight to the
\* dial, with no Start command, no poll and no change of the timer; when the
\* dial succeeds playerCount grows by exactly 1 and the state stays Running.
\* Every successful reply carries a connection, with the state Running, and
\* while the loop processes a request playerCount changes in that one step
\* only.
C26_AcquireInRunning ==
    [][/\ (loopPc = "process" /\ state = "Running" /\ loopPc' # loopPc) =>
            /\ loopPc' = "reply"
            /\ startCalls' = startCalls /\ awaitCalls' = awaitCalls
            /\ timerVars' = timerVars
            /\ reply'.err = "none" =>
                 /\ playerCount' = playerCount + 1
                 /\ state' = "Running"
       /\ (loopPc' = "reply" /\ reply'.err = "none") =>
            /\ reply'.conn # 0
            /\ state' = "Running"
       /\ (loopPc \notin {"new", "select"} /\ playerCount' # playerCount) =>
            /\ loopPc' = "reply" /\ reply'.err = "none"
            /\ playerCount' = playerCount + 1
       /\ \A h \in Handlers :
            (hpc[h] = "getWait" /\ hres'[h] = "ok") =>
              /\ hconn'[h] # 0
              /\ state' = "Running" /\ ctrlVars' = ctrlVars]_vars

\* The second client got its connection while the first holds one, and the
\* backend was never started nor polled.
C26_Witness ==
    /\ \A h \in Handlers : hpc[h] = "copy" /\ hconn[h] # 0
    /\ playerCount = 2
    /\ state = "Running"
    /\ startCalls = 0 /\ awaitCalls = 0


\* The loop is inside StartMinecraftServer or AwaitForServerStart for the
\* request it is processing.
StartOrPollInProgress ==
    \/ loopPc = "await"
    \/ loopPc = "process" /\ state \in {"Off", "StartingUp"}

\* C27: the loop does not block on a start or a poll: while one is in
\* progress for a request, a PutConnection that is waiting can be taken and
\* so can the event of a fired timer.
C27_LoopNotBlockedByPoll ==
    StartOrPollInProgress =>
        /\ (\E h \in Handlers : hpc[h] = "put") =>
               ENABLED (\E h \in Handlers : LoopPutConn(h))
        /\ (\E t \in Timers : ShutdownEmitted(t)) =>
               ENABLED (\E t \in Timers : LoopShutdown(t))


\* C28: StartLoop leaves the route in state Empty with no player and a timer
\* armed if and only if autoshutdown is set when the backend is reachable,
\* and in state Off with no timer when it is not; it issues no Start command.
C28_Bootstrap ==
    [][(loopPc = "new" /\ loopPc' # "new") =>
         /\ loopPc' = "select"
         /\ playerCount' = 0
         /\ startCalls' = 0 /\ awaitCalls' = 0
         /\ IF bootRunning'
            THEN /\ state' = "Empty"
                 /\ autoshutdown <=> (shutDownTimer' # 0 /\ timer'[shutDownTimer'] = "armed")
                 /\ autoshutdown <=> (\E t \in Timers : timer'[t] # "none")
            ELSE /\ state' = "Off"
                 /\ shutDownTimer' = 0
                 /\ \A t \in Timers : timer'[t] = "none"]_vars

\* The loop has just started with the backend found running and no
\* automatic shutdown.
C28_Witness ==
    /\ loopPc = "select"
    /\ bootRunning /\ ~autoshutdown
    /\ state = "Empty"
    /\ \A h \in Handlers : hpc[h] = "idle"


\* C29: every turn of AwaitForServerStart is a failed probe, after which it
\* goes on polling, or a successful probe, on which it returns at once, or
\* the end of its context, on which it returns the timeout error; the
\* timeout error comes from nowhere else.  No turn issues a Start or Stop
\* command or touches the timer, the state or playerCount (the state is set
\* by processState once the poll has returned success).
C29_AwaitForServerStart ==
    [][/\ (loopPc = "await" /\ (loopPc' # loopPc \/ attempt' # attempt)) =>
            /\ startCalls' = startCalls
            /\ stopCalls' = stopCalls
            /\ timerVars' = timerVars
            /\ playerCount' = playerCount
            /\ \/ /\ loopPc' = "await"
                  /\ attempt' = attempt + 1
                  /\ state' = state /\ reply' = reply
               \/ /\ loopPc' = "reply"
                  /\ reply' = [conn |-> 0, err |-> "poll"]
                  /\ state' = state
               \/ /\ loopPc' = "process"
                  /\ state' = "Empty" /\ reply' = reply
       /\ (reply'.err = "poll" /\ reply.err # "poll") => loopPc = "await"
       /\ loopPc = "await" => ENABLED AwaitForServerStart]_vars

\* The poll is still running after MaxAttempts failed probes.
C29_Witness ==
    /\ loopPc = "await"
    /\ attempt = MaxAttempts + 1
    /\ state = "StartingUp"
    /\ startCalls = 1


\* C30: StopShuttingDown, called in any state of the route, leaves no timer
\* armed, and a timer it stopped never fires; with no timer armed it changes
\* no timer, and with no timer held it changes nothing; a second call right
\* after the first changes nothing more.
C30_StopShuttingDown ==
    /\ [](LET once == afterStop(timer, shutDownTimer)
              twice == afterStop(once.timer, once.field)
          IN  /\ \A t \in Timers : once.timer[t] # "armed"
              /\ \A t \in Timers : once.timer[t] # timer[t] =>
                     (timer[t] = "armed" /\ once.timer[t] = "stopped")
              /\ shutDownTimer = 0 => once = [timer |-> timer, field |-> 0]
              /\ twice = once)
    /\ [][\A t \in Timers :
            timer[t] = "stopped" => (timer'[t] = "stopped" /\ stopCalls'[t] = 0)]_vars

\* A second client found the state Empty again: StopShuttingDown has stopped
\* one timer before and now stops another.
C30_Witness ==
    /\ loopPc = "process"
    /\ state = "Empty"
    /\ shutDownTimer # 0 /\ timer[shutDownTimer] = "armed"
    /\ \E t \in Timers : timer[t] = "stopped"


\* C31: an accept error leaves the process running and changes nothing of
\* the Connector, the operator or the handlers; and whatever the number of
\* accept errors so far, the acceptor of a started route takes the next
\* client and starts a handler for it.
C31_AcceptErrorContinues ==
    [][/\ acceptErrors' # acceptErrors =>
            /\ alive'
            /\ << ctrlVars, loopPc, attempt, reply, handlerVars, conn, timerVars,
                  histVars, stopCalls, arrival >>' =
               << ctrlVars, loopPc, attempt, reply, handlerVars, conn, timerVars,
                  histVars, stopCalls, arrival >>
       /\ (alive' /\ loopPc' # "new" /\ \E h \in Handlers : hpc'[h] = "idle") =>
            (ENABLED (\E h \in Handlers : Accept(h)))']_vars

\* After MaxAcceptErrors accept errors, some of them before the first
\* client, both clients were accepted and one holds a connection.
C31_Witness ==
    /\ acceptErrors = MaxAcceptErrors
    /\ \A h \in Handlers : hpc[h] # "idle"
    /\ \E h \in Handlers : hpc[h] = "copy"


\* C32: StopMcServer is never called while a player is counted, however the
\* firing of the timer and its callback interleave with the loop processing
\* a GetConnection.
C32_NoStopWithPlayers ==
    [][\A t \in Timers : stopCalls'[t] # stopCalls[t] => playerCount = 0]_vars


\* The handlers that hold a backend connection: given one by GetConnection,
\* with the loop not yet having taken its PutConnection.
Holders == {h \in Handlers : hconn[h] # 0 /\ hpc[h] \in {"copy", "put"}}

\* C33: whenever the loop is at its select, playerCount is the number of
\* handlers that hold a connection.
C33_CountIsHolders ==
    loopPc = "select" => playerCount = Cardinality(Holders)


C35_TimerEventOnlyFromEmpty ==
    [][\A t \in Timers :
         (timer[t] = "posting" /\ timer'[t] = "done") =>
           /\ playerCount' = playerCount
           /\ state' = IF state = "Empty" THEN "Off" ELSE state]_vars

\* The event of a timer that fired just as a client connected was taken in
\* state Running: the backend was never started by the route, so the state
\* has not been Off since the timer was armed.
C35_Witness ==
    /\ state = "Running"
    /\ playerCount = 1
    /\ bootRunning /\ startCalls = 0 /\ ~failed
    /\ \E t \in Timers : timer[t] = "done"


\* C36: the loop taking a PutConnection that carries no connection changes
\* neither playerCount nor the state nor any timer nor any connection, in
\* whatever state it takes it.
C36_NilReleaseNoOp ==
    [][\A h \in Handlers :
         (loopPc = "select" /\ hpc[h] = "put" /\ hconn[h] = 0 /\ hpc'[h] = "done") =>
           /\ ctrlVars' = ctrlVars
           /\ timerVars' = timerVars
           /\ conn' = conn
           /\ loopPc' = loopPc]_vars

\* The nil release of a client whose dial failed was taken in state Off
\* while another client is connected and counted.
C36_Witness ==
    /\ state = "Off"
    /\ playerCount = 1
    /\ \E h, g \in Handlers :
         /\ hpc[h] = "done" /\ hres[h] = "dial" /\ hconn[h] = 0
         /\ hpc[g] = "copy"

====
